---- MODULE Spec2Model ----
(***************************************************************************)
(* Model of the threat-enrichment SmartModule                              *)
(* (smartmodule/enricher/src/lib.rs).                                      *)
(*                                                                         *)
(* array_map decodes one pulse and, for every record, runs the four        *)
(* keyword classifiers, the location resolver and the expiration resolver  *)
(* and emits one EnrichedThreatRecord.  Strings are TLA+ strings; the      *)
(* string operations of the source (to_lowercase, join, contains, split,   *)
(* parse::<u64>, format!) are computed character by character.             *)
(*                                                                         *)
(* Two things in the source are not functions of the input record and are  *)
(* therefore nondeterministic in the model:                                *)
(*   - the keyword tables are std::collections::HashMap values built with  *)
(*     HashMap::new() (RandomState), so `.iter()` visits the entries in an *)
(*     order that differs from one table instance to the next;             *)
(*   - the u64 arithmetic of parse_iso8601 panics on overflow in a build   *)
(*     with overflow checks and wraps modulo 2^64 in a build without, and  *)
(*     `UNIX_EPOCH + duration` panics only where SystemTime holds signed   *)
(*     64-bit seconds.  `build` selects among these.                       *)
(***************************************************************************)
EXTENDS Integers, Sequences, FiniteSets, TLC

VARIABLES
  build,      \* how the crate was compiled (see Builds)
  record,     \* the OTXRecord being enriched
  emitted,    \* the outputs of the successive enrichments of `record`
  date_str,   \* input of the date parser when it is exercised on its own
  parsed,     \* result of parse_iso8601(date_str)
  formatted   \* result of format_system_time on the parsed instant

vars == <<build, record, emitted, date_str, parsed, formatted>>

-----------------------------------------------------------------------------
(* Bounds of the model *)

\* number of enrichments of the same record that are observed
MaxRuns == 2
\* indicators per record when the text classifiers are exercised
MaxIndicators == 1
\* indicators per record when the activity tier is exercised
MaxFlags == 3
\* indicators per record when the expiration resolver is exercised
MaxExpIndicators == 2

-----------------------------------------------------------------------------
(* Strings *)

Range(s) == {s[i] : i \in DOMAIN s}

CharAt(s, i) == SubSeq(s, i, i)

UpperChars == "ABCDEFGHIJKLMNOPQRSTUVWXYZ"
LowerChars == "abcdefghijklmnopqrstuvwxyz"

LowerOf ==
  [c \in {CharAt(UpperChars, i) : i \in 1..Len(UpperChars)} |->
     CharAt(LowerChars, CHOOSE i \in 1..Len(UpperChars) : CharAt(UpperChars, i) = c)]

LowerChar(c) == IF c \in DOMAIN LowerOf THEN LowerOf[c] ELSE c

\* str::to_lowercase (ASCII letters; every other character is kept)
RECURSIVE to_lowercase(_)
to_lowercase(s) ==
  IF Len(s) = 0 THEN ""
  ELSE LowerChar(CharAt(s, 1)) \o to_lowercase(SubSeq(s, 2, Len(s)))

\* [&str]::join(sep)
RECURSIVE join(_, _)
join(strs, sep) ==
  IF Len(strs) = 0 THEN ""
  ELSE IF Len(strs) = 1 THEN strs[1]
  ELSE strs[1] \o sep \o join(Tail(strs), sep)

\* contains with a seeded fault: the keyword is only looked for at the start
contains_prefix_only(text, keyword) ==
  /\ Len(keyword) <= Len(text)
  /\ SubSeq(text, 1, Len(keyword)) = keyword

\* str::contains(&str): substring containment
contains(text, keyword) ==
  \E i \in 1..(Len(text) - Len(keyword) + 1) :
     SubSeq(text, i, i + Len(keyword) - 1) = keyword

\* Option<String>: None is <<>>, Some(s) is <<s>>
None == <<>>
Some(s) == <<s>>
unwrap_or(opt, default) == IF Len(opt) = 0 THEN default ELSE opt[1]

-----------------------------------------------------------------------------
(* Taxonomy tables *)

\* attack_type_keywords(): the (keyword, AttackType) entries, in insertion order.
attack_type_keywords ==
  << <<"ransom", "Ransomware">>,
     <<"ransomware", "Ransomware">>,
     <<"locker", "Ransomware">>,
     <<"cryptolocker", "Ransomware">>,
     <<"encryptor", "Ransomware">>,
     <<"crypto-malware", "Ransomware">>,
     <<"malware", "Malware">>,
     <<"virus", "Malware">>,
     <<"worm", "Malware">>,
     <<"adware", "Malware">>,
     <<"rootkit", "Malware">>,
     <<"keylogger", "Malware">>,
     <<"ddos", "Ddos">>,
     <<"dos", "Ddos">>,
     <<"denial of service", "Ddos">>,
     <<"distributed denial of service", "Ddos">>,
     <<"flood attack", "Ddos">>,
     <<"syn flood", "Ddos">>,
     <<"amplification attack", "Ddos">>,
     <<"botnet", "Botnet">>,
     <<"bot network", "Botnet">>,
     <<"zombie network", "Botnet">>,
     <<"c&c", "Botnet">>,
     <<"command and control", "Botnet">>,
     <<"phish", "Phishing">>,
     <<"phishing", "Phishing">>,
     <<"spearphish", "Phishing">>,
     <<"spear-phishing", "Phishing">>,
     <<"whaling", "Phishing">>,
     <<"credential harvesting", "Phishing">>,
     <<"email scam", "Phishing">>,
     <<"smishing", "Phishing">>,
     <<"vishing", "Phishing">>,
     <<"trojan", "Trojan">>,
     <<"trojan horse", "Trojan">>,
     <<"dropper", "Trojan">>,
     <<"backdoor", "Trojan">>,
     <<"infostealer", "Trojan">>,
     <<"spyware", "Spyware">>,
     <<"snoopware", "Spyware">>,
     <<"tracking software", "Spyware">>,
     <<"monitoring tool", "Spyware">>,
     <<"brute force", "BruteForce">>,
     <<"bruteforce", "BruteForce">>,
     <<"credential stuffing", "BruteForce">>,
     <<"password cracking", "BruteForce">>,
     <<"dictionary attack", "BruteForce">>,
     <<"sql injection", "SQLInjection">>,
     <<"sqli", "SQLInjection">>,
     <<"injection attack", "SQLInjection">>,
     <<"database injection", "SQLInjection">>,
     <<"blind sql", "SQLInjection">>,
     <<"error-based injection", "SQLInjection">>,
     <<"union-based injection", "SQLInjection">> >>

\* attack_vector_keywords(): the (keyword, AttackVector) entries, in insertion order.
attack_vector_keywords ==
  << <<"email", "Email">>,
     <<"phishing", "Email">>,
     <<"spearphish", "Email">>,
     <<"spoofing", "Email">>,
     <<"web", "WebApplication">>,
     <<"xss", "WebApplication">>,
     <<"cross-site scripting", "WebApplication">>,
     <<"sql injection", "WebApplication">>,
     <<"sqli", "WebApplication">>,
     <<"csrf", "WebApplication">>,
     <<"directory traversal", "WebApplication">>,
     <<"network", "Network">>,
     <<"ddos", "Network">>,
     <<"denial of service", "Network">>,
     <<"port scan", "Network">>,
     <<"mitm", "Network">>,
     <<"man in the middle", "Network">>,
     <<"cloud", "CloudService">>,
     <<"aws", "CloudService">>,
     <<"gcp", "CloudService">>,
     <<"azure", "CloudService">>,
     <<"bucket", "CloudService">>,
     <<"s3", "CloudService">>,
     <<"misconfig", "CloudService">>,
     <<"storage exposure", "CloudService">>,
     <<"supply chain", "SupplyChain">>,
     <<"dependency confusion", "SupplyChain">>,
     <<"software supply chain", "SupplyChain">>,
     <<"package hijack", "SupplyChain">>,
     <<"vendor compromise", "SupplyChain">> >>

\* urgency_keywords(): the (keyword, Urgency) entries, in insertion order.
urgency_keywords ==
  << <<"hot", "Hot">>,
     <<"immediate", "Hot">>,
     <<"active", "Hot">>,
     <<"ongoing", "Hot">>,
     <<"breaking", "Hot">>,
     <<"cold", "Cold">>,
     <<"stale", "Cold">>,
     <<"archived", "Cold">>,
     <<"historical", "Cold">>,
     <<"retired", "Cold">>,
     <<"inactive", "Cold">>,
     <<"critical", "Critical">>,
     <<"high", "Critical">>,
     <<"severe", "Critical">>,
     <<"urgent", "Critical">>,
     <<"emergency", "Critical">>,
     <<"medium", "Medium">>,
     <<"moderate", "Medium">>,
     <<"average", "Medium">>,
     <<"balanced", "Medium">>,
     <<"low", "Low">>,
     <<"minor", "Low">>,
     <<"negligible", "Low">>,
     <<"low priority", "Low">>,
     <<"minimal", "Low">> >>

\* target_keywords(): the (keyword, Target) entries, in insertion order.
target_keywords ==
  << <<"webapp", "WebApp">>,
     <<"web app", "WebApp">>,
     <<"website", "WebApp">>,
     <<"web application", "WebApp">>,
     <<"web portal", "WebApp">>,
     <<"online service", "WebApp">>,
     <<"web service", "WebApp">>,
     <<"infrastructure", "Infrastructure">>,
     <<"server", "Infrastructure">>,
     <<"servers", "Infrastructure">>,
     <<"datacenter", "Infrastructure">>,
     <<"data center", "Infrastructure">>,
     <<"network infra", "Infrastructure">>,
     <<"cloud infrastructure", "Infrastructure">>,
     <<"system", "Infrastructure">>,
     <<"backend", "Infrastructure">>,
     <<"api abuse", "ApiAbuse">>,
     <<"api exploitation", "ApiAbuse">>,
     <<"api attack", "ApiAbuse">>,
     <<"api misuse", "ApiAbuse">>,
     <<"rest api", "ApiAbuse">>,
     <<"graphql api", "ApiAbuse">>,
     <<"api endpoint", "ApiAbuse">>,
     <<"iot", "IotDevices">>,
     <<"device", "IotDevices">>,
     <<"smart devices", "IotDevices">>,
     <<"smart home", "IotDevices">>,
     <<"embedded systems", "IotDevices">>,
     <<"industrial control systems", "IotDevices">>,
     <<"ics", "IotDevices">>,
     <<"plc", "IotDevices">>,
     <<"smart tv", "IotDevices">>,
     <<"iot network", "IotDevices">>,
     <<"user", "UserFocused">>,
     <<"users", "UserFocused">>,
     <<"human", "UserFocused">>,
     <<"human target", "UserFocused">>,
     <<"social engineering", "UserFocused">>,
     <<"account takeover", "UserFocused">>,
     <<"identity theft", "UserFocused">>,
     <<"credential theft", "UserFocused">>,
     <<"login brute force", "UserFocused">>,
     <<"phishing scam", "UserFocused">>,
     <<"email", "EmailAttack">>,
     <<"email attack", "EmailAttack">>,
     <<"email phishing", "EmailAttack">>,
     <<"email spoofing", "EmailAttack">>,
     <<"spam email", "EmailAttack">>,
     <<"malicious email", "EmailAttack">>,
     <<"email fraud", "EmailAttack">>,
     <<"spearphishing", "EmailAttack">>,
     <<"mail scam", "EmailAttack">>,
     <<"mail fraud", "EmailAttack">> >>

\* The orders in which `.iter()` of a HashMap can visit the entries `keys`:
\* every enumeration without repetition.
RECURSIVE IterOrders(_)
IterOrders(keys) ==
  IF keys = {} THEN {<<>>}
  ELSE UNION {{<<k>> \o rest : rest \in IterOrders(keys \ {k})} : k \in keys}

\* The entries of `table` whose keyword occurs in `flattened`.  The loops
\* over a table do nothing for the other entries, so the iteration order of
\* a table matters only as the order it induces on these.
MatchedKeys(flattened, table) ==
  {i \in DOMAIN table : contains(flattened, table[i][1])}

-----------------------------------------------------------------------------
(* Classifiers *)

\* push_matches with a seeded fault: the `!contains` test is dropped
RECURSIVE push_matches_no_dedup(_, _, _, _)
push_matches_no_dedup(order, table, flattened, acc) ==
  IF Len(order) = 0 THEN acc
  ELSE LET keyword == table[Head(order)][1]
           category == table[Head(order)][2]
       IN push_matches_no_dedup(Tail(order), table, flattened,
                                IF contains(flattened, keyword)
                                THEN Append(acc, category) ELSE acc)

\* the `for (keyword, category) in table.iter()` loop of the three list
\* classifiers; `order` is the order in which the entries are visited
RECURSIVE push_matches(_, _, _, _)
push_matches(order, table, flattened, acc) ==
  IF Len(order) = 0 THEN acc
  ELSE LET keyword == table[Head(order)][1]
           category == table[Head(order)][2]
       IN push_matches(Tail(order), table, flattened,
                       IF contains(flattened, keyword) /\ category \notin Range(acc)
                       THEN Append(acc, category) ELSE acc)

or_unknown(categories) ==
  IF Len(categories) = 0 THEN <<"Unknown">> ELSE categories

\* flat_map over the indicators: title, description, role
RECURSIVE indicator_text_with_role(_)
indicator_text_with_role(inds) ==
  IF Len(inds) = 0 THEN <<>>
  ELSE <<inds[1].title, inds[1].description, unwrap_or(inds[1].role, "")>>
       \o indicator_text_with_role(Tail(inds))

\* flat_map over the indicators: title, description
RECURSIVE indicator_text(_)
indicator_text(inds) ==
  IF Len(inds) = 0 THEN <<>>
  ELSE <<inds[1].title, inds[1].description>> \o indicator_text(Tail(inds))

attack_types_text(rec) ==
  to_lowercase(join(<<rec.name, rec.description>> \o rec.tags
                    \o indicator_text_with_role(rec.indicators), " "))

attack_vectors_text(rec) ==
  to_lowercase(join(<<rec.name, rec.description>> \o rec.tags
                    \o indicator_text(rec.indicators), " "))

urgency_text(rec) ==
  to_lowercase(join(<<rec.name, rec.description>> \o rec.tags, " "))

\* targets_text with a seeded fault: the role of every indicator is searched too
targets_text_with_role(rec) ==
  to_lowercase(join(<<rec.name, rec.description>> \o rec.tags
                    \o indicator_text_with_role(rec.indicators), " "))

targets_text(rec) ==
  to_lowercase(join(<<rec.name, rec.description>> \o rec.tags
                    \o indicator_text(rec.indicators), " "))

classify_attack_types(rec, order) ==
  or_unknown(push_matches(order, attack_type_keywords, attack_types_text(rec), <<>>))

classify_attack_vectors(rec, order) ==
  or_unknown(push_matches(order, attack_vector_keywords, attack_vectors_text(rec), <<>>))

classify_targets(rec, order) ==
  or_unknown(push_matches(order, target_keywords, targets_text(rec), <<>>))

\* the sum of +1 / -1 over the indicators
RECURSIVE tipper(_)
tipper(inds) ==
  IF Len(inds) = 0 THEN 0
  ELSE (IF inds[1].is_active = 1 THEN 1 ELSE -1) + tipper(Tail(inds))

\* overwrite_severity with a seeded fault: Hot and Cold entries overwrite too
RECURSIVE overwrite_any_tier(_, _, _)
overwrite_any_tier(order, flattened, severity) ==
  IF Len(order) = 0 THEN severity
  ELSE LET keyword == urgency_keywords[Head(order)][1]
           urgency_rec == urgency_keywords[Head(order)][2]
       IN overwrite_any_tier(Tail(order), flattened,
                             IF contains(flattened, keyword)
                             THEN urgency_rec ELSE severity)

\* the `for (keyword, urgency_rec) in urgency_keywords().iter()` loop;
\* `order` is the order in which the entries are visited
RECURSIVE overwrite_severity(_, _, _)
overwrite_severity(order, flattened, severity) ==
  IF Len(order) = 0 THEN severity
  ELSE LET keyword == urgency_keywords[Head(order)][1]
           urgency_rec == urgency_keywords[Head(order)][2]
       IN overwrite_severity(Tail(order), flattened,
                             IF /\ contains(flattened, keyword)
                                /\ urgency_rec \in {"Critical", "Medium", "Low"}
                             THEN urgency_rec ELSE severity)

\* activity_tier with a seeded fault: a tie counts as Hot
activity_tier_tie_hot(inds) == IF tipper(inds) >= 0 THEN "Hot" ELSE "Cold"

activity_tier(inds) == IF tipper(inds) > 0 THEN "Hot" ELSE "Cold"

classify_urgency(rec, order) ==
  <<activity_tier(rec.indicators), overwrite_severity(order, urgency_text(rec), "Low")>>

-----------------------------------------------------------------------------
(* Builds *)

\* "checked":       overflow checks on (the default of a debug build): u64
\*                  overflow panics
\* "unchecked_i64": overflow checks off, SystemTime holds signed 64-bit
\*                  seconds (unix): u64 overflow wraps, `UNIX_EPOCH + d`
\*                  panics when d is 2^63 seconds or more
\* "unchecked_u64": overflow checks off, SystemTime is a Duration since the
\*                  epoch (wasm32): u64 overflow wraps, the addition succeeds
Builds == {"checked", "unchecked_i64", "unchecked_u64"}

-----------------------------------------------------------------------------
(* Custom date parser / formatter *)

SecondsPerYear == 31536000
SecondsPerMonth == 2592000
SecondsPerDay == 86400
SecondsPerHour == 3600
SecondsPerMinute == 60
EpochYear == 1970
U64Bits == 64

Digits == "0123456789"
IsDigit(c) == \E i \in 1..Len(Digits) : CharAt(Digits, i) = c
DigitValue(c) == (CHOOSE i \in 1..Len(Digits) : CharAt(Digits, i) = c) - 1

Delimiters == {"T", "-", ":", "."}

\* str::split(['T', '-', ':', '.']).collect(): `current` is the segment
\* being read
RECURSIVE split(_, _)
split(s, current) ==
  IF Len(s) = 0 THEN <<current>>
  ELSE IF CharAt(s, 1) \in Delimiters
       THEN <<current>> \o split(SubSeq(s, 2, Len(s)), "")
       ELSE split(SubSeq(s, 2, Len(s)), current \o CharAt(s, 1))

RECURSIVE digits_value(_, _)
digits_value(s, acc) ==
  IF Len(s) = 0 THEN acc
  ELSE digits_value(SubSeq(s, 2, Len(s)), 10 * acc + DigitValue(CharAt(s, 1)))

\* str::parse::<u64>(): an optional '+' and then one or more decimal digits;
\* -1 stands for Err.  (Values of ten digits or more are outside the model.)
parse_u64(s) ==
  LET body == IF Len(s) > 0 /\ CharAt(s, 1) = "+" THEN SubSeq(s, 2, Len(s)) ELSE s
  IN IF Len(body) > 0 /\ \A i \in 1..Len(body) : IsDigit(CharAt(body, i))
     THEN digits_value(body, 0)
     ELSE -1

\* An instant is the u64 number of seconds since the epoch.  The model holds
\* it as an integer v: v >= 0 is the value v, v < 0 is the value 2^64 + v
\* (the result of a wrapped subtraction).
u64_gt(a, b) == IF (a < 0) = (b < 0) THEN a > b ELSE a < 0

\* (r * 2^k) % n, by doubling
RECURSIVE pow2_mod(_, _, _)
pow2_mod(k, n, r) ==
  IF k = 0 THEN r % n ELSE pow2_mod(k - 1, n, (2 * r) % n)

\* 2^k \div n, by doubling, as <<quotient \div 10^6, quotient % 10^6>>;
\* hi, lo and r are the quotient and the remainder so far
RECURSIVE pow2_div(_, _, _, _, _)
pow2_div(k, n, hi, lo, r) ==
  IF k = 0 THEN <<hi, lo>>
  ELSE pow2_div(k - 1, n,
                2 * hi + ((2 * lo + ((2 * r) \div n)) \div 1000000),
                (2 * lo + ((2 * r) \div n)) % 1000000,
                (2 * r) % n)

\* v % n on u64
u64_mod(v, n) ==
  IF v >= 0 THEN v % n ELSE (pow2_mod(U64Bits, n, 1) + v) % n

\* decimal digits of a natural number
RECURSIVE nat_to_str(_)
nat_to_str(n) ==
  IF n < 10 THEN CharAt(Digits, n + 1)
  ELSE nat_to_str(n \div 10) \o CharAt(Digits, (n % 10) + 1)

\* format!("{:0w$}", n): zero-padded to at least w characters
RECURSIVE zero_pad(_, _)
zero_pad(s, w) == IF Len(s) >= w THEN s ELSE zero_pad("0" \o s, w)

\* format!("{:04}", base + v / n) on u64
u64_div_plus_str(v, n, base) ==
  IF v >= 0 THEN zero_pad(nat_to_str(base + (v \div n)), 4)
  ELSE LET q == pow2_div(U64Bits, n, 0, 0, 1)
           lo == q[2] + base + ((pow2_mod(U64Bits, n, 1) + v) \div n)
       IN nat_to_str(q[1] + (lo \div 1000000)) \o zero_pad(nat_to_str(lo % 1000000), 6)

\* parse_iso8601: [tag |-> "Ok", secs |-> instant], [tag |-> "Err"] or
\* [tag |-> "Panic"]
parse_iso8601(date_str_, bld) ==
  LET parts == split(date_str_, "")
      year == parse_u64(parts[1])
      month == parse_u64(parts[2])
      day == parse_u64(parts[3])
      hour == parse_u64(parts[4])
      minute == parse_u64(parts[5])
      second == parse_u64(parts[6])
      total == ((year - EpochYear) * SecondsPerYear)
               + ((month - 1) * SecondsPerMonth)
               + ((day - 1) * SecondsPerDay)
               + (hour * SecondsPerHour)
               + (minute * SecondsPerMinute)
               + second
  IN IF Len(parts) < 6 THEN [tag |-> "Err", secs |-> 0]
     ELSE IF \E i \in 1..6 : parse_u64(parts[i]) = -1 THEN [tag |-> "Err", secs |-> 0]
     ELSE IF bld = "checked" /\ (year < EpochYear \/ month < 1 \/ day < 1)
          THEN [tag |-> "Panic", secs |-> 0]
     ELSE IF bld = "unchecked_i64" /\ total < 0
          THEN [tag |-> "Panic", secs |-> 0]
     ELSE [tag |-> "Ok", secs |-> total]

\* format_system_time with a seeded fault: the month is not taken within the year
format_system_time_month_total(seconds) ==
  LET year == u64_div_plus_str(seconds, SecondsPerYear, EpochYear)
      month == (seconds \div SecondsPerMonth) + 1
      day == (u64_mod(seconds, SecondsPerMonth) \div SecondsPerDay) + 1
      hour == u64_mod(seconds, SecondsPerDay) \div SecondsPerHour
      minute == u64_mod(seconds, SecondsPerHour) \div SecondsPerMinute
      second == u64_mod(seconds, SecondsPerMinute)
  IN year \o "-" \o zero_pad(nat_to_str(month), 2)
          \o "-" \o zero_pad(nat_to_str(day), 2)
          \o "T" \o zero_pad(nat_to_str(hour), 2)
          \o ":" \o zero_pad(nat_to_str(minute), 2)
          \o ":" \o zero_pad(nat_to_str(second), 2)

format_system_time(seconds) ==
  LET year == u64_div_plus_str(seconds, SecondsPerYear, EpochYear)
      month == (u64_mod(seconds, SecondsPerYear) \div SecondsPerMonth) + 1
      day == (u64_mod(seconds, SecondsPerMonth) \div SecondsPerDay) + 1
      hour == u64_mod(seconds, SecondsPerDay) \div SecondsPerHour
      minute == u64_mod(seconds, SecondsPerHour) \div SecondsPerMinute
      second == u64_mod(seconds, SecondsPerMinute)
  IN year \o "-" \o zero_pad(nat_to_str(month), 2)
          \o "-" \o zero_pad(nat_to_str(day), 2)
          \o "T" \o zero_pad(nat_to_str(hour), 2)
          \o ":" \o zero_pad(nat_to_str(minute), 2)
          \o ":" \o zero_pad(nat_to_str(second), 2)

-----------------------------------------------------------------------------
(* Expiration resolver *)

\* the loop of get_expiration: t_exp_date is [tag |-> "None"],
\* [tag |-> "Some", secs |-> instant] or, once a parse has panicked,
\* [tag |-> "Panic"]
RECURSIVE latest_expiration(_, _, _)
latest_expiration(inds, bld, t_exp_date) ==
  IF Len(inds) = 0 \/ t_exp_date.tag = "Panic" THEN t_exp_date
  ELSE LET expiration == inds[1].expiration
           res == parse_iso8601(expiration[1], bld)
       IN latest_expiration(Tail(inds), bld,
            IF Len(expiration) = 0 THEN t_exp_date
            ELSE IF res.tag = "Panic" THEN [tag |-> "Panic", secs |-> 0]
            ELSE IF res.tag = "Err" THEN t_exp_date
            ELSE IF t_exp_date.tag = "None" \/ u64_gt(res.secs, t_exp_date.secs)
                 THEN [tag |-> "Some", secs |-> res.secs]
                 ELSE t_exp_date)

\* get_expiration: [tag |-> "Some", str |-> s], [tag |-> "None"] or
\* [tag |-> "Panic"]
get_expiration(rec, bld) ==
  LET t_exp_date == latest_expiration(rec.indicators, bld, [tag |-> "None", secs |-> 0])
  IN IF t_exp_date.tag = "Some"
     THEN [tag |-> "Some", str |-> format_system_time(t_exp_date.secs)]
     ELSE [tag |-> t_exp_date.tag, str |-> ""]

-----------------------------------------------------------------------------
(* Enrichment *)

\* the value an invocation leaves behind when it panics: nothing is emitted
Trap ==
  [kind |-> "Trap", attack_types |-> <<>>, attack_vectors |-> <<>>,
   urgency |-> <<>>, targets |-> <<>>, locations |-> <<>>,
   expiration_date |-> ""]

EnrichedThreatRecord(types, vectors, urgency, targets, locations, expiration) ==
  [kind |-> "Ok", attack_types |-> types, attack_vectors |-> vectors,
   urgency |-> urgency, targets |-> targets, locations |-> locations,
   expiration_date |-> expiration]

resolve_locations(rec) ==
  IF Len(rec.targeted_countries) = 0 THEN <<"Unknown">> ELSE rec.targeted_countries

\* The orders in which a classifier can visit the entries of its table that
\* match its text
VisitOrders(flattened, table) == IterOrders(MatchedKeys(flattened, table))

\* One enrichment of `record`: the body of the loop of array_map for a pulse
\* whose results hold this record.  Each classifier builds its own table, so
\* each result is drawn over the iteration orders of its own table.
ArrayMap ==
  /\ Len(emitted) < MaxRuns
  /\ \E attack_types \in
          { classify_attack_types(record, o) :
              o \in VisitOrders(attack_types_text(record), attack_type_keywords) },
        attack_vectors \in
          { classify_attack_vectors(record, o) :
              o \in VisitOrders(attack_vectors_text(record), attack_vector_keywords) },
        urgency \in
          { classify_urgency(record, o) :
              o \in VisitOrders(urgency_text(record), urgency_keywords) },
        targets \in
          { classify_targets(record, o) :
              o \in VisitOrders(targets_text(record), target_keywords) } :
       LET locations == resolve_locations(record)
           expiration == get_expiration(record, build)
       IN emitted' = Append(emitted,
            IF expiration.tag = "Panic" THEN Trap
            ELSE EnrichedThreatRecord(attack_types, attack_vectors, urgency, targets,
                                      locations, expiration.str))
  /\ UNCHANGED <<build, record, date_str, parsed, formatted>>

\* parse_iso8601 applied to date_str
ParseDate ==
  /\ parsed.tag = "NotRun"
  /\ parsed' = parse_iso8601(date_str, build)
  /\ UNCHANGED <<build, record, emitted, date_str, formatted>>

\* format_system_time applied to the parsed instant
FormatDate ==
  /\ parsed.tag = "Ok"
  /\ formatted = ""
  /\ formatted' = format_system_time(parsed.secs)
  /\ UNCHANGED <<build, record, emitted, date_str, parsed>>

-----------------------------------------------------------------------------
(* Inputs *)

SeqsUpTo(S, n) == UNION {[1..k -> S] : k \in 0..n}

OTXIndicator(title, description, role, expiration, is_active) ==
  [title |-> title, description |-> description, role |-> role,
   expiration |-> expiration, is_active |-> is_active]

OTXRecord(name, description, tags, indicators, targeted_countries) ==
  [name |-> name, description |-> description, tags |-> tags,
   indicators |-> indicators, targeted_countries |-> targeted_countries]

EmptyRecord == OTXRecord("", "", <<>>, <<>>, <<>>)

ScenarioDescription == "Ransomware attack via phishing email targeting users"

Names == {"", "High alert"}
Descriptions == {"", "Medium DDoS flood", "minor botnet"}
TagLists == {<<>>, <<"inactive", "apt">>}
CountryLists == {<<>>, <<"US", "DE">>}

\* keywords in the role only; keywords in the title and description only
TextIndicators ==
  { OTXIndicator("C2 node", "", Some("c&c server"), None, 1),
    OTXIndicator("High severity", "Hot user", None, None, 0) }

ActiveFlags == {0, 1, 2}
FlagIndicators == {OTXIndicator("active", "", None, None, f) : f \in ActiveFlags}

Expirations ==
  { None,
    Some("2023-01-01T00:00:00"),
    Some("2023-06-01T00:00:00"),
    Some("2024-06-15T10:30:00"),
    Some("2023-01-01"),
    Some("2023-xx-01T00:00:00"),
    Some("1969-12-31T23:59:59"),
    Some("2024-00-15T10:30:00") }
ExpIndicators == {OTXIndicator("", "", None, e, 1) : e \in Expirations}

make_date(y, m, d, h, mi, s) ==
  zero_pad(nat_to_str(y), 4) \o "-" \o zero_pad(nat_to_str(m), 2)
    \o "-" \o zero_pad(nat_to_str(d), 2) \o "T" \o zero_pad(nat_to_str(h), 2)
    \o ":" \o zero_pad(nat_to_str(mi), 2) \o ":" \o zero_pad(nat_to_str(s), 2)

DateYears == {1970, 1976, 2023, 2024, 2037}
DateMonths == 1..12
DateDays == {1, 2, 15, 30, 31}
DateHours == {0, 10, 23}
DateMinutes == {0, 30, 59}
DateSeconds == {0, 59}

DateStrings ==
  { make_date(y, m, d, h, mi, s) :
      y \in DateYears, m \in DateMonths, d \in DateDays,
      h \in DateHours, mi \in DateMinutes, s \in DateSeconds }
  \cup { "2023-01-01", "2023-xx-01T00:00:00", "1969-12-31T23:59:59",
         "2024-00-15T10:30:00", "2024-6-15T10:30:00.000" }

NotRun == [tag |-> "NotRun", secs |-> 0]

-----------------------------------------------------------------------------
(* Specifications *)

DateIdle ==
  /\ date_str = ""
  /\ parsed = NotRun
  /\ formatted = ""

\* the scenario description, without indicators
ScenarioRecords ==
  { OTXRecord(n, ScenarioDescription, t, <<>>, c) :
      n \in Names, t \in TagLists, c \in CountryLists }

\* records over the text fields of the record and of its indicators
TextRecords ==
  { OTXRecord(n, d, t, i, <<>>) :
      n \in Names, d \in Descriptions, t \in TagLists,
      i \in SeqsUpTo(TextIndicators, MaxIndicators) }

\* the text classifiers; no record holds an expiration, so that the build
\* makes no difference
Init ==
  /\ build = "checked"
  /\ record \in ScenarioRecords \cup TextRecords
  /\ emitted = <<>>
  /\ DateIdle

\* the activity tier: records over the active flags and the hot/cold words
InitUrgency ==
  /\ build \in Builds
  /\ record \in { OTXRecord(n, d, <<>>, i, c) :
                    n \in {"", "hot"}, d \in {"", "inactive"},
                    i \in SeqsUpTo(FlagIndicators, MaxFlags),
                    c \in CountryLists }
  /\ emitted = <<>>
  /\ DateIdle

\* the expiration resolver: records over the expirations of the indicators
InitExpiration ==
  /\ build \in Builds
  /\ record \in { OTXRecord("", "", <<>>, i, <<>>) :
                    i \in SeqsUpTo(ExpIndicators, MaxExpIndicators) }
  /\ emitted = <<>>
  /\ DateIdle

\* the date parser and formatter on their own
InitDate ==
  /\ build \in Builds
  /\ record = EmptyRecord
  /\ emitted = <<>>
  /\ date_str \in DateStrings
  /\ parsed = NotRun
  /\ formatted = ""

Next == ArrayMap

NextDate == ParseDate \/ FormatDate

Spec == Init /\ [][Next]_vars

SpecUrgency == InitUrgency /\ [][Next]_vars

SpecExpiration == InitExpiration /\ [][Next]_vars

SpecDate == InitDate /\ [][NextDate]_vars

-----------------------------------------------------------------------------
(* Properties *)

Outputs == {emitted[i] : i \in DOMAIN emitted}

\* the categories of the entries of `table` whose keyword occurs in `text`
MatchedCategories(text, table) ==
  {table[i][2] : i \in MatchedKeys(text, table)}

NoDuplicates(s) == \A i, j \in DOMAIN s : i # j => s[i] # s[j]

\* the six numbers of a timestamp, as written
DateFields(s) ==
  LET parts == split(s, "") IN [i \in 1..6 |-> parse_u64(parts[i])]

\* s is YYYY-MM-DDTHH:MM:SS with year >= 1970, month in 1..12, day in
\* 1..max_day and a valid time of day
CanonicalDate(s, max_day) ==
  /\ Len(split(s, "")) = 6
  /\ \A i \in 1..6 : DateFields(s)[i] >= 0
  /\ LET f == DateFields(s)
     IN /\ f[1] >= 1970 /\ f[1] <= 9999
        /\ f[2] \in 1..12
        /\ f[3] \in 1..max_day
        /\ f[4] \in 0..23
        /\ f[5] \in 0..59
        /\ f[6] \in 0..59
        /\ s = make_date(f[1], f[2], f[3], f[4], f[5], f[6])

\* seconds since the epoch of a canonical timestamp, by the documented
\* fixed-unit formula
FixedUnitSeconds(s) ==
  LET f == DateFields(s)
  IN (f[1] - 1970) * 31536000 + (f[2] - 1) * 2592000 + (f[3] - 1) * 86400
     + f[4] * 3600 + f[5] * 60 + f[6]

\* C1 (as claimed): for every timestamp YYYY-MM-DDTHH:MM:SS with year >= 1970,
\* month in 1..12, day in 1..30 and a valid time of day, formatting the parsed
\* instant returns exactly the timestamp.
C1_RoundTrip ==
  (formatted # "" /\ CanonicalDate(date_str, 30)) => formatted = date_str

\* C2 (as claimed): two enrichments of the same record produce the identical
\* EnrichedThreatRecord, element order and severity tier included.
C2_Deterministic ==
  \A i, j \in DOMAIN emitted : emitted[i] = emitted[j]

ScenarioRecord(rec) ==
  /\ rec.name = ""
  /\ rec.description = ScenarioDescription
  /\ rec.tags = <<>>
  /\ rec.indicators = <<>>

\* C3 (as claimed): for the scenario record, attack_types is exactly
\* [Ransomware], attack_vectors is [Email], targets contains UserFocused and
\* EmailAttack and urgency is (Cold, Low).
C3_ScenarioOnlyRansomware ==
  ScenarioRecord(record) =>
    \A e \in Outputs :
      /\ e.attack_types = <<"Ransomware">>
      /\ e.attack_vectors = <<"Email">>
      /\ {"UserFocused", "EmailAttack"} \subseteq Range(e.targets)
      /\ e.urgency = <<"Cold", "Low">>

\* C3 (amended): for the scenario record, attack_types holds exactly
\* Ransomware and Phishing, in either order, attack_vectors is [Email],
\* targets contains UserFocused and EmailAttack and urgency is (Cold, Low).
C3_ScenarioRansomwareAndPhishing ==
  ScenarioRecord(record) =>
    \A e \in Outputs :
      /\ Len(e.attack_types) = 2
      /\ Range(e.attack_types) = {"Ransomware", "Phishing"}
      /\ e.attack_vectors = <<"Email">>
      /\ {"UserFocused", "EmailAttack"} \subseteq Range(e.targets)
      /\ e.urgency = <<"Cold", "Low">>

C3_Witness ==
  /\ ScenarioRecord(record)
  /\ Len(emitted) > 0
  /\ emitted[1].attack_types = <<"Phishing", "Ransomware">>

\* the target categories whose keyword occurs in the role of an indicator
RoleTargets(rec) ==
  UNION { MatchedCategories(to_lowercase(unwrap_or(rec.indicators[i].role, "")),
                            target_keywords) : i \in DOMAIN rec.indicators }

\* C4 (as claimed): a target keyword that occurs in the role of an indicator
\* puts its category into targets.
C4_RoleSearched ==
  \A e \in Outputs : RoleTargets(record) \subseteq Range(e.targets)

\* C4 (amended): the target classifier searches name, description, tags and
\* the title and description of every indicator, but not the role: targets
\* holds exactly the categories of the target keywords that occur in that
\* text, and is [Unknown] when there is none, whatever the roles hold.
C4_RoleNotSearched ==
  \A cats \in { MatchedCategories(
                   to_lowercase(join(<<record.name, record.description>>
                                     \o record.tags
                                     \o indicator_text(record.indicators), " ")),
                   target_keywords) } :
    \A e \in Outputs :
      IF cats = {} THEN e.targets = <<"Unknown">> ELSE Range(e.targets) = cats

C4_Witness ==
  /\ Len(emitted) > 0
  /\ "Infrastructure" \in RoleTargets(record)
  /\ emitted[1].targets = <<"Unknown">>

\* the expirations of the record that are canonical timestamps
CanonicalExpirations(rec) ==
  { rec.indicators[i].expiration[1] :
      i \in {j \in DOMAIN rec.indicators :
               /\ Len(rec.indicators[j].expiration) = 1
               /\ CanonicalDate(rec.indicators[j].expiration[1], 30)} }

\* every expiration of the record is absent, unparseable or canonical
OnlyCanonicalOrSkipped(rec) ==
  \A i \in DOMAIN rec.indicators :
    LET x == rec.indicators[i].expiration
    IN \/ Len(x) = 0
       \/ parse_iso8601(x[1], "checked").tag = "Err"
       \/ CanonicalDate(x[1], 30)

\* C5 (as claimed): when the expirations are canonical timestamps, absent or
\* unparseable, expiration_date is the canonical expiration with the greatest
\* seconds-since-epoch value, unchanged.
C5_LatestUnchanged ==
  (OnlyCanonicalOrSkipped(record) /\ CanonicalExpirations(record) # {}) =>
    \A e \in Outputs :
      /\ e.kind = "Ok"
      /\ e.expiration_date \in CanonicalExpirations(record)
      /\ \A x \in CanonicalExpirations(record) :
           FixedUnitSeconds(e.expiration_date) >= FixedUnitSeconds(x)

\* C6 (as claimed): whatever the expirations hold, the enrichment never
\* aborts: every enrichment emits a record.
C6_NeverAborts ==
  \A e \in Outputs : e.kind = "Ok"

\* one list classifier's result against the categories of the keywords of
\* its table that occur in its aggregated text
WellClassified(result, cats) ==
  /\ Len(result) > 0
  /\ NoDuplicates(result)
  /\ ("Unknown" \in Range(result)) <=> (cats = {})
  /\ cats = {} => result = <<"Unknown">>
  /\ cats # {} => Range(result) = cats

\* C7: attack_types, attack_vectors and targets are non-empty and
\* duplicate-free; each is exactly [Unknown] when no keyword of its table
\* occurs in its aggregated text and otherwise the set of the categories of
\* the matching keywords, without Unknown.
C7_NonEmptyUniqueUnknown ==
  \A types \in {MatchedCategories(attack_types_text(record), attack_type_keywords)},
     vectors \in {MatchedCategories(attack_vectors_text(record), attack_vector_keywords)},
     targets \in {MatchedCategories(targets_text(record), target_keywords)} :
    \A e \in Outputs :
      e.kind = "Ok" =>
        /\ WellClassified(e.attack_types, types)
        /\ WellClassified(e.attack_vectors, vectors)
        /\ WellClassified(e.targets, targets)

C7_Witness ==
  /\ Len(emitted) > 0
  /\ Cardinality(MatchedKeys(attack_types_text(record), attack_type_keywords)) = 2
  /\ emitted[1].attack_types = <<"Ddos">>
  /\ emitted[1].targets = <<"Unknown">>

ActiveCount(rec) ==
  Cardinality({i \in DOMAIN rec.indicators : rec.indicators[i].is_active = 1})

\* C8: urgency.0 is Hot exactly when more indicators have is_active = 1 than
\* have any other value, and Cold otherwise, whatever the text holds.
C8_ActivityTier ==
  \A e \in Outputs :
    e.kind = "Ok" =>
      e.urgency[1] = (IF ActiveCount(record) > Len(record.indicators) - ActiveCount(record)
                      THEN "Hot" ELSE "Cold")

C8_Witness ==
  /\ Len(emitted) > 0
  /\ Len(record.indicators) = 3
  /\ record.indicators[1].is_active = 1
  /\ record.indicators[2].is_active = 1
  /\ record.indicators[3].is_active = 0
  /\ record.description = "inactive"
  /\ emitted[1].urgency[1] = "Hot"

\* the severity keywords are those mapped to Critical, Medium or Low
SeverityCategories(text) ==
  MatchedCategories(text, urgency_keywords) \cap {"Critical", "Medium", "Low"}

\* C9: urgency.0 is Hot or Cold and urgency.1 is Critical, Medium or Low;
\* urgency.1 is Low when no severity keyword occurs in name, description or
\* tags, and is always the tier of a severity keyword occurring there, so the
\* text of the indicators never changes it.
C9_SeverityRange ==
  \A cats \in { UNION { SeverityCategories(to_lowercase(f)) :
                           f \in Range(<<record.name, record.description>>
                                       \o record.tags) } } :
    \A e \in Outputs :
      e.kind = "Ok" =>
        /\ e.urgency[1] \in {"Hot", "Cold"}
        /\ e.urgency[2] \in {"Critical", "Medium", "Low"}
        /\ cats = {} => e.urgency[2] = "Low"
        /\ cats # {} => e.urgency[2] \in cats

C9_Witness ==
  /\ Len(emitted) > 0
  /\ record.name = ""
  /\ record.description = ""
  /\ record.tags = <<"inactive", "apt">>
  /\ Len(record.indicators) = 1
  /\ record.indicators[1].title = "High severity"
  /\ emitted[1].urgency = <<"Cold", "Low">>

\* C10 (as claimed): for a timestamp with year >= 1970, month in 1..12, day
\* in 1..31 and a valid time of day, the formatted instant has a month field
\* in 01..12, a day field in 01..30, hour 00..23, minute 00..59 and second
\* 00..59.
C10_MonthUpTo12 ==
  (formatted # "" /\ CanonicalDate(date_str, 31)) =>
    LET f == DateFields(formatted)
    IN /\ Len(formatted) = 19
       /\ f[2] \in 1..12
       /\ f[3] \in 1..30
       /\ f[4] \in 0..23
       /\ f[5] \in 0..59
       /\ f[6] \in 0..59

\* C10 (amended): for such a timestamp the formatted instant has a month
\* field in 01..13 (13 for the last five days of a 365-day year), a day field
\* in 01..30, hour 00..23, minute 00..59 and second 00..59.
C10_MonthUpTo13 ==
  (formatted # "" /\ CanonicalDate(date_str, 31)) =>
    LET f == DateFields(formatted)
    IN /\ Len(formatted) = 19
       /\ f[2] \in 1..13
       /\ f[3] \in 1..30
       /\ f[4] \in 0..23
       /\ f[5] \in 0..59
       /\ f[6] \in 0..59

C10_Witness ==
  /\ formatted # ""
  /\ CanonicalDate(date_str, 31)
  /\ DateFields(formatted)[2] = 13

====
